---- MODULE Spec2Model ----
(***************************************************************************)
(* Neural style transfer engine (neural_style.py): the construction of an  *)
(* NSTModel, one call of NSTModel.run, and the layer style loss as a pure  *)
(* function of two feature maps.                                           *)
(*                                                                         *)
(* Images and activations are symbolic: an image is a record naming where  *)
(* its pixels come from and its spatial shape, an activation is the pair   *)
(* (image in the input slot, layer read).  The TensorFlow session, the     *)
(* VGG graph and the image utilities are external collaborators; each of   *)
(* their calls either returns or raises.                                   *)
(***************************************************************************)
EXTENDS Integers, Sequences, FiniteSets, TLC

VARIABLES
    pc,                 \* position in NSTModel.__init__ / NSTModel.run
    style_weights,      \* argument of __init__
    input_image_path,   \* argument of __init__ ("" when not given)
    ckpt_shape,         \* spatial shape of the checkpoint file on disk
    num_iter,           \* argument of run
    STYLE_LAYERS,       \* self.STYLE_LAYERS
    content_img,        \* self._content_img
    style_img,          \* self._style_img
    generated_img,      \* self._generated_img
    sess,               \* self._sess: "none", "open", "closed"
    out,                \* self._out: output node of the graph
    content_features,   \* self._content_features
    style_features,     \* self._style_features
    input,              \* value of self._vgg.tf_layers['input'] in the session
    total_loss,         \* the loss graph built by run
    i,                  \* loop variable of run
    read_img,           \* local generated_img of run
    current_loss,       \* local current_loss of run
    log,                \* lines printed by run
    files,              \* output folder: path -> image written
    nMinimize,          \* optimizer.minimize calls begun so far
    nReadback,          \* read-backs of the input slot begun by run so far
    nSave,              \* _save_image calls begun so far
    written,            \* history: <<path, image>> of every completed write
    substeps,           \* sub-steps taken by the last optimizer.minimize call
    error,              \* exception that left __init__ or run ("none" if none)
    failedAt,           \* position at which it was raised
    ori_features,       \* argument of _compute_layer_style_loss
    gen_features,       \* argument of _compute_layer_style_loss
    layer_loss          \* its result

params   == <<style_weights, input_image_path, ckpt_shape>>
selfVars == <<STYLE_LAYERS, content_img, style_img, generated_img, sess, out,
              content_features, style_features>>
runVars  == <<num_iter, total_loss, i, read_img, current_loss, log, files,
              nMinimize, nReadback, nSave, written, substeps>>
lossVars == <<ori_features, gen_features, layer_loss>>
vars     == <<pc, params, selfVars, input, runVars, error, failedAt, lossVars>>

----------------------------------------------------------------------------
(* Bounds of the model *)

MaxNumIter == 2         \* num_iter ranges over 0..MaxNumIter
MaxWeights == 6         \* style_weights lists have 4..MaxWeights entries
MaxFeat    == 1         \* feature-map entries range over 0..MaxFeat

(* Program constants *)

MAXITER == 10           \* options={'maxiter': 10}

H == 300
W == 400
OutputLayer == "conv5_2"
OutputFolder == "output"
StyleLayerNames == <<"conv1_1", "conv2_1", "conv3_1", "conv4_1", "conv5_1">>

None == "None"
NoImage == [src |-> "None", shape |-> <<>>]
NoGraph == [src |-> "no_graph", shape |-> <<>>]
Uninitialized == [src |-> "uninitialized", shape |-> <<>>]
NoActivation == [img |-> NoImage, layer |-> None]
NoLossGraph == [style |-> <<>>]
NoTensor == [shape |-> <<>>, data |-> <<>>]
NoFraction == [num |-> 0, den |-> 0]
Partial == [pixels |-> NoImage, dtype |-> "partial"]
InitialValue == [src |-> "initial_value", shape |-> <<H, W>>]

----------------------------------------------------------------------------
(* Inputs *)

\* twice the default weights 0.5, 1, 2, 3, 4, continued by 2 per entry
Weight(k) == IF k = 1 THEN 1 ELSE 2 * (k - 1)
WeightLists == { [k \in 1..n |-> Weight(k)] : n \in 4..MaxWeights }
CheckpointPaths == {"", "checkpoint.png"}
FileShapes == {<<H, W>>, <<2 * H, 2 * W>>}
LossValues == {"finite", "nan", "inf"}
SubStepCounts == {0, 1, MAXITER}

ContentFile == [name |-> "content", shape |-> <<2 * H, 2 * W>>]
StyleFile == [name |-> "style", shape |-> <<H, 2 * W>>]
CheckpointFile == [name |-> "checkpoint", shape |-> ckpt_shape]

----------------------------------------------------------------------------
(* Collaborators *)

\* utilities.load_image: the file's pixels resized to the shape asked for
load_image(file, shape) == [src |-> file.name, shape |-> shape]

\* the activation of layer `layer` for the tensor held by the input slot
Activation(img, layer) == [img |-> img, layer |-> layer]

Digit(d) ==
    CASE d = 0 -> "0" [] d = 1 -> "1" [] d = 2 -> "2" [] d = 3 -> "3"
      [] d = 4 -> "4" [] d = 5 -> "5" [] d = 6 -> "6" [] d = 7 -> "7"
      [] d = 8 -> "8" [] d = 9 -> "9"

\* Python's str() of a non-negative int
RECURSIVE str(_)
str(n) == IF n < 10 THEN Digit(n) ELSE str(n \div 10) \o Digit(n % 10)

----------------------------------------------------------------------------
Init ==
    /\ pc = "start"
    /\ style_weights \in WeightLists
    /\ input_image_path \in CheckpointPaths
    /\ ckpt_shape \in FileShapes
    /\ num_iter = -1
    /\ STYLE_LAYERS = <<>>
    /\ content_img = NoImage
    /\ style_img = NoImage
    /\ generated_img = NoImage
    /\ sess = "none"
    /\ out = None
    /\ content_features = NoActivation
    /\ style_features = <<>>
    /\ input = NoGraph
    /\ total_loss = NoLossGraph
    /\ i = -1
    /\ read_img = NoImage
    /\ current_loss = None
    /\ log = <<>>
    /\ files = [p \in {} |-> Partial]
    /\ nMinimize = 0
    /\ nReadback = 0
    /\ nSave = 0
    /\ written = <<>>
    /\ substeps = -1
    /\ error = "none"
    /\ failedAt = None
    /\ ori_features = NoTensor
    /\ gen_features = NoTensor
    /\ layer_loss = NoFraction

\* an exception leaves __init__: no object is returned
InitRaise(kind) ==
    /\ pc' = "INIT_FAILED"
    /\ error' = kind
    /\ failedAt' = pc
    /\ UNCHANGED <<params, selfVars, input, runVars, lossVars>>

\* an exception leaves run
RunRaise(kind) ==
    /\ pc' = "ABORTED"
    /\ error' = kind
    /\ failedAt' = pc
    /\ UNCHANGED <<params, selfVars, input, runVars, lossVars>>

----------------------------------------------------------------------------
(* NSTModel.__init__ *)

BuildStyleLayers ==
    /\ pc = "start"
    /\ IF Len(style_weights) < Len(StyleLayerNames)
       THEN InitRaise("IndexError")
       ELSE /\ STYLE_LAYERS' = [k \in 1..Len(StyleLayerNames) |->
                                   <<StyleLayerNames[k], style_weights[k]>>]
            /\ pc' = "load_content"
            /\ UNCHANGED <<params, content_img, style_img, generated_img, sess,
                           out, content_features, style_features, input,
                           runVars, error, failedAt, lossVars>>

LoadContent ==
    /\ pc = "load_content"
    /\ \/ /\ content_img' = load_image(ContentFile, <<H, W>>)
          /\ pc' = "load_style"
          /\ UNCHANGED <<params, STYLE_LAYERS, style_img, generated_img, sess,
                         out, content_features, style_features, input,
                         runVars, error, failedAt, lossVars>>
       \/ InitRaise("ImageLoadError")

LoadStyle ==
    /\ pc = "load_style"
    /\ \/ /\ style_img' = load_image(StyleFile, <<H, W>>)
          /\ generated_img' = NoImage
          /\ pc' = "session"
          /\ UNCHANGED <<params, STYLE_LAYERS, content_img, sess,
                         out, content_features, style_features, input,
                         runVars, error, failedAt, lossVars>>
       \/ InitRaise("ImageLoadError")

OpenSession ==
    /\ pc = "session"
    /\ \/ /\ sess' = "open"
          /\ pc' = "init_generated"
          /\ UNCHANGED <<params, STYLE_LAYERS, content_img, style_img,
                         generated_img, out, content_features, style_features,
                         input, runVars, error, failedAt, lossVars>>
       \/ InitRaise("SessionError")

\* bug variant: the checkpoint is taken at the shape it has on disk
LoadCheckpointAsIs == [src |-> CheckpointFile.name, shape |-> CheckpointFile.shape]

\* line 38: the checkpoint goes through load_image with the configured shape
LoadCheckpoint == load_image(CheckpointFile, <<H, W>>)

\* _init_generated_image: noise * 0.1 + content * 0.9, of the content's shape
init_generated_image == [src |-> "blend", shape |-> content_img.shape]

InitGenerated ==
    /\ pc = "init_generated"
    /\ \/ /\ generated_img' = IF input_image_path # ""
                              THEN LoadCheckpoint
                              ELSE init_generated_image
          /\ pc' = "build_vgg"
          /\ UNCHANGED <<params, STYLE_LAYERS, content_img, style_img, sess,
                         out, content_features, style_features, input,
                         runVars, error, failedAt, lossVars>>
       \/ /\ input_image_path # ""
          /\ InitRaise("ImageLoadError")

BuildVgg ==
    /\ pc = "build_vgg"
    /\ \/ /\ pc' = "build_model"
          /\ input' = Uninitialized
          /\ UNCHANGED <<params, selfVars, runVars, error, failedAt, lossVars>>
       \/ InitRaise("ExtractorLoadError")

BuildModel ==
    /\ pc = "build_model"
    /\ \/ /\ out' = OutputLayer
          /\ pc' = "init_variables"
          /\ UNCHANGED <<params, STYLE_LAYERS, content_img, style_img,
                         generated_img, sess, content_features, style_features,
                         input, runVars, error, failedAt, lossVars>>
       \/ InitRaise("ExtractorLoadError")

InitVariables ==
    /\ pc = "init_variables"
    /\ \/ /\ input' = InitialValue
          /\ pc' = "content_features"
          /\ UNCHANGED <<params, selfVars, runVars, error, failedAt, lossVars>>
       \/ InitRaise("SessionError")

\* bug variant: a failed forward pass is caught and construction goes on
ComputeContentFeaturesSwallowingError ==
    /\ pc = "content_features"
    /\ \/ /\ input' = content_img
          /\ content_features' = Activation(input', out)
          /\ pc' = "assign_style"
          /\ UNCHANGED <<params, STYLE_LAYERS, content_img, style_img,
                         generated_img, sess, out, style_features,
                         runVars, error, failedAt, lossVars>>
       \/ /\ pc' = "assign_style"
          /\ error' = "SessionError"
          /\ failedAt' = pc
          /\ UNCHANGED <<params, selfVars, input, runVars, lossVars>>

ComputeContentFeatures ==
    /\ pc = "content_features"
    /\ \/ /\ input' = content_img
          /\ content_features' = Activation(input', out)
          /\ pc' = "assign_style"
          /\ UNCHANGED <<params, STYLE_LAYERS, content_img, style_img,
                         generated_img, sess, out, style_features,
                         runVars, error, failedAt, lossVars>>
       \/ InitRaise("SessionError")

AssignStyleImage ==
    /\ pc = "assign_style"
    /\ \/ /\ style_features' = <<>>
          /\ input' = style_img
          /\ pc' = "style_features"
          /\ UNCHANGED <<params, STYLE_LAYERS, content_img, style_img,
                         generated_img, sess, out, content_features,
                         runVars, error, failedAt, lossVars>>
       \/ /\ style_features' = <<>>
          /\ pc' = "INIT_FAILED"
          /\ error' = "SessionError"
          /\ failedAt' = pc
          /\ UNCHANGED <<params, STYLE_LAYERS, content_img, style_img,
                         generated_img, sess, out, content_features, input,
                         runVars, lossVars>>

\* bug variant: each activation is put at the front of the list
ReadStyleLayerPrepending ==
    /\ pc = "style_features"
    /\ \/ LET k == Len(style_features) + 1 IN
          /\ style_features' =
                 <<Activation(input, STYLE_LAYERS[k][1])>> \o style_features
          /\ pc' = IF k = Len(STYLE_LAYERS) THEN "READY" ELSE "style_features"
          /\ UNCHANGED <<params, STYLE_LAYERS, content_img, style_img,
                         generated_img, sess, out, content_features, input,
                         runVars, error, failedAt, lossVars>>
       \/ InitRaise("SessionError")

\* one turn of the loop of _compute_style_features
ReadStyleLayer ==
    /\ pc = "style_features"
    /\ \/ LET k == Len(style_features) + 1 IN
          /\ style_features' =
                 Append(style_features, Activation(input, STYLE_LAYERS[k][1]))
          /\ pc' = IF k = Len(STYLE_LAYERS) THEN "READY" ELSE "style_features"
          /\ UNCHANGED <<params, STYLE_LAYERS, content_img, style_img,
                         generated_img, sess, out, content_features, input,
                         runVars, error, failedAt, lossVars>>
       \/ InitRaise("SessionError")

----------------------------------------------------------------------------
(* NSTModel.run *)

\* _compute_content_loss(self._out)
compute_content_loss(generated_features) ==
    [gen |-> generated_features, target |-> content_features]

\* _compute_total_style_loss: one term per entry of STYLE_LAYERS
compute_total_style_loss ==
    [k \in 1..Len(STYLE_LAYERS) |->
        [ori |-> style_features[k],
         gen |-> STYLE_LAYERS[k][1],
         coeff |-> STYLE_LAYERS[k][2]]]

\* where `for i in range(num_iter)` goes when asked for its j-th value
LoopAt(j) == IF j < num_iter THEN "minimize" ELSE "close"

\* lines 63-69: the loss graph and the optimizer
Run ==
    /\ pc = "READY"
    /\ \E n \in 0..MaxNumIter :
          /\ num_iter' = n
          /\ total_loss' = [beta |-> 1, content |-> compute_content_loss(out),
                            alpha |-> 2000, style |-> compute_total_style_loss]
          /\ pc' = "run_init"
          /\ UNCHANGED <<params, selfVars, input, i, read_img, current_loss,
                         log, files, nMinimize, nReadback, nSave, written,
                         substeps, error, failedAt, lossVars>>

RunInitVariables ==
    /\ pc = "run_init"
    /\ \/ /\ input' = InitialValue
          /\ pc' = "run_assign"
          /\ UNCHANGED <<params, selfVars, runVars, error, failedAt, lossVars>>
       \/ RunRaise("SessionError")

\* bug variant: line 72 missing, the slot keeps what the initializer restored
RunAssignSkipped ==
    /\ pc = "run_assign"
    /\ \/ /\ i' = IF 0 < num_iter THEN 0 ELSE i
          /\ pc' = LoopAt(0)
          /\ UNCHANGED <<params, selfVars, input, num_iter, total_loss,
                         read_img, current_loss, log, files, nMinimize,
                         nReadback, nSave, written, substeps, error, failedAt,
                         lossVars>>
       \/ RunRaise("SessionError")

RunAssign ==
    /\ pc = "run_assign"
    /\ \/ /\ input' = generated_img
          /\ i' = IF 0 < num_iter THEN 0 ELSE i
          /\ pc' = LoopAt(0)
          /\ UNCHANGED <<params, selfVars, num_iter, total_loss, read_img,
                         current_loss, log, files, nMinimize, nReadback, nSave,
                         written, substeps, error, failedAt, lossVars>>
       \/ RunRaise("SessionError")

\* the tensor the optimizer leaves in the input slot after k sub-steps
Optimized(img, k) ==
    IF k = 0 THEN img
    ELSE [src |-> "optimized", shape |-> img.shape, iter |-> i, steps |-> k]

\* bug variant: the loop is left when the optimizer takes no sub-step
MinimizeStopOnConvergence ==
    /\ pc = "minimize"
    /\ nMinimize' = nMinimize + 1
    /\ \/ \E k \in SubStepCounts :
             /\ substeps' = k
             /\ input' = Optimized(input, k)
             /\ pc' = IF k = 0 THEN "close" ELSE "readback"
             /\ UNCHANGED <<params, selfVars, num_iter, total_loss, i, read_img,
                            current_loss, log, files, nReadback, nSave, written,
                            error, failedAt, lossVars>>
       \/ /\ pc' = "ABORTED"
          /\ error' = "OptimizerError"
          /\ failedAt' = pc
          /\ UNCHANGED <<params, selfVars, input, num_iter, total_loss, i,
                         read_img, current_loss, log, files, nReadback, nSave,
                         written, substeps, lossVars>>

Minimize ==
    /\ pc = "minimize"
    /\ nMinimize' = nMinimize + 1
    /\ \/ \E k \in SubStepCounts :
             /\ substeps' = k
             /\ input' = Optimized(input, k)
             /\ pc' = "readback"
             /\ UNCHANGED <<params, selfVars, num_iter, total_loss, i, read_img,
                            current_loss, log, files, nReadback, nSave, written,
                            error, failedAt, lossVars>>
       \/ /\ pc' = "ABORTED"
          /\ error' = "OptimizerError"
          /\ failedAt' = pc
          /\ UNCHANGED <<params, selfVars, input, num_iter, total_loss, i,
                         read_img, current_loss, log, files, nReadback, nSave,
                         written, substeps, lossVars>>

ReadBack ==
    /\ pc = "readback"
    /\ nReadback' = nReadback + 1
    /\ \/ /\ read_img' = input
          /\ pc' = "loss"
          /\ UNCHANGED <<params, selfVars, input, num_iter, total_loss, i,
                         current_loss, log, files, nMinimize, nSave, written,
                         substeps, error, failedAt, lossVars>>
       \/ /\ pc' = "ABORTED"
          /\ error' = "SessionError"
          /\ failedAt' = pc
          /\ UNCHANGED <<params, selfVars, input, num_iter, total_loss, i,
                         read_img, current_loss, log, files, nMinimize, nSave,
                         written, substeps, lossVars>>

ReadLoss ==
    /\ pc = "loss"
    /\ \/ \E l \in LossValues :
             /\ current_loss' = l
             /\ pc' = "print"
             /\ UNCHANGED <<params, selfVars, input, num_iter, total_loss, i,
                            read_img, log, files, nMinimize, nReadback, nSave,
                            written, substeps, error, failedAt, lossVars>>
       \/ RunRaise("SessionError")

\* variant: a loss that is not finite raises instead of being printed
PrintLossChecked ==
    /\ pc = "print"
    /\ IF current_loss \in {"nan", "inf"}
       THEN RunRaise("OptimizationError")
       ELSE /\ log' = Append(log, "Iter" \o str(i) \o "0, Loss: " \o current_loss)
            /\ pc' = "save"
            /\ UNCHANGED <<params, selfVars, input, num_iter, total_loss, i,
                           read_img, current_loss, files, nMinimize, nReadback,
                           nSave, written, substeps, error, failedAt, lossVars>>

PrintLoss ==
    /\ pc = "print"
    /\ log' = Append(log, "Iter" \o str(i) \o "0, Loss: " \o current_loss)
    /\ pc' = "save"
    /\ UNCHANGED <<params, selfVars, input, num_iter, total_loss, i, read_img,
                   current_loss, files, nMinimize, nReadback, nSave, written,
                   substeps, error, failedAt, lossVars>>

\* bug variant: the iteration count divided, not multiplied, by 10
SnapshotPathDivided(j) == OutputFolder \o "/" \o str(j \div 10) \o ".png"

\* the path of the snapshot of iteration j
SnapshotPath(j) == OutputFolder \o "/" \o str(j * 10) \o ".png"

\* _save_image: de-normalised, clipped to 0..255, as uint8
Deprocess(image) == [pixels |-> image, dtype |-> "uint8"]

Store(path, content) ==
    [p \in DOMAIN files \cup {path} |-> IF p = path THEN content ELSE files[p]]

\* bug variant: a failed write is caught and the loop goes on
SaveImageSwallowingError ==
    /\ pc = "save"
    /\ nSave' = nSave + 1
    /\ LET path == SnapshotPath(i) IN
       \/ /\ files' = Store(path, Deprocess(read_img))
          /\ written' = Append(written, <<path, Deprocess(read_img)>>)
          /\ i' = IF i + 1 < num_iter THEN i + 1 ELSE i
          /\ pc' = LoopAt(i + 1)
          /\ UNCHANGED <<params, selfVars, input, num_iter, total_loss,
                         read_img, current_loss, log, nMinimize, nReadback,
                         substeps, error, failedAt, lossVars>>
       \/ /\ files' \in {files, Store(path, Partial)}
          /\ i' = IF i + 1 < num_iter THEN i + 1 ELSE i
          /\ pc' = LoopAt(i + 1)
          /\ error' = "SnapshotWriteError"
          /\ failedAt' = pc
          /\ UNCHANGED <<params, selfVars, input, num_iter, total_loss,
                         read_img, current_loss, log, nMinimize, nReadback,
                         written, substeps, lossVars>>

SaveImage ==
    /\ pc = "save"
    /\ nSave' = nSave + 1
    /\ LET path == SnapshotPath(i) IN
       \/ /\ files' = Store(path, Deprocess(read_img))
          /\ written' = Append(written, <<path, Deprocess(read_img)>>)
          /\ i' = IF i + 1 < num_iter THEN i + 1 ELSE i
          /\ pc' = LoopAt(i + 1)
          /\ UNCHANGED <<params, selfVars, input, num_iter, total_loss,
                         read_img, current_loss, log, nMinimize, nReadback,
                         substeps, error, failedAt, lossVars>>
       \/ /\ files' \in {files, Store(path, Partial)}
          /\ pc' = "ABORTED"
          /\ error' = "SnapshotWriteError"
          /\ failedAt' = pc
          /\ UNCHANGED <<params, selfVars, input, num_iter, total_loss, i,
                         read_img, current_loss, log, nMinimize, nReadback,
                         written, substeps, lossVars>>

CloseSession ==
    /\ pc = "close"
    /\ sess' = "closed"
    /\ pc' = "DONE"
    /\ UNCHANGED <<params, STYLE_LAYERS, content_img, style_img, generated_img,
                   out, content_features, style_features, input, runVars,
                   error, failedAt, lossVars>>

----------------------------------------------------------------------------
Next ==
    \/ BuildStyleLayers
    \/ LoadContent
    \/ LoadStyle
    \/ OpenSession
    \/ InitGenerated
    \/ BuildVgg
    \/ BuildModel
    \/ InitVariables
    \/ ComputeContentFeatures
    \/ AssignStyleImage
    \/ ReadStyleLayer
    \/ Run
    \/ RunInitVariables
    \/ RunAssign
    \/ Minimize
    \/ ReadBack
    \/ ReadLoss
    \/ PrintLoss
    \/ SaveImage
    \/ CloseSession

Spec == Init /\ [][Next]_vars

\* run is sequential code: a step that can be taken is taken
FairSpec == Spec /\ WF_vars(Next)

----------------------------------------------------------------------------
(* The layer style loss, on concrete tensors.  A tensor is its shape and   *)
(* its entries in row-major order, as numpy and TensorFlow hold it.        *)

RECURSIVE Product(_)
Product(shape) ==
    IF shape = <<>> THEN 1 ELSE Head(shape) * Product(Tail(shape))

RECURSIVE SumSeq(_)
SumSeq(s) == IF s = <<>> THEN 0 ELSE Head(s) + SumSeq(Tail(s))

\* tf.reshape: the same entries under another shape
reshape(t, shape) == [shape |-> shape, data |-> t.data]

\* entry (r, a) of a matrix
At(M, r, a) == M.data[(r - 1) * M.shape[2] + a]

\* row and column of the x-th entry of a matrix with m columns
Row(x, m) == ((x - 1) \div m) + 1
Col(x, m) == ((x - 1) % m) + 1

transpose(M) ==
    LET n == M.shape[2]
        m == M.shape[1]
    IN [shape |-> <<n, m>>,
        data |-> [x \in 1..(n * m) |-> At(M, Col(x, m), Row(x, m))]]

matmul(A, B) ==
    LET n == A.shape[1]
        m == B.shape[2]
    IN [shape |-> <<n, m>>,
        data |-> [x \in 1..(n * m) |->
                    SumSeq([k \in 1..A.shape[2] |->
                               At(A, Row(x, m), k) * At(B, k, Col(x, m))])]]

\* bug variant: the second operand transposed instead of the first
gram_mat_outer(M) == matmul(M, transpose(M))

\* _gram_mat
gram_mat(M) == matmul(transpose(M), M)

\* tf.reduce_sum(tf.pow(G - O, 2))
SumSquaredDiff(G, O) ==
    SumSeq([x \in 1..Len(G.data) |-> (G.data[x] - O.data[x]) * (G.data[x] - O.data[x])])

\* _compute_layer_style_loss; the loss is the fraction num / den
compute_layer_style_loss(ori, gen) ==
    LET h == ori.shape[2]
        w == ori.shape[3]
        c == ori.shape[4]
        O == gram_mat(reshape(ori, <<h * w, c>>))
        G == gram_mat(reshape(gen, <<h * w, c>>))
    IN [num |-> SumSquaredDiff(G, O),
        den |-> 4 * (c * c) * ((h * w) * (h * w))]

FeatShapes == {<<1, 1, 2, 2>>, <<1, 2, 2, 1>>, <<1, 2, 1, 1>>, <<1, 1, 1, 2>>}

FeatureMaps(shape) ==
    { [shape |-> shape, data |-> d] : d \in [1..Product(shape) -> 0..MaxFeat] }

LossInit ==
    /\ pc = "layer_style_loss"
    /\ \E shape \in FeatShapes :
          /\ ori_features \in FeatureMaps(shape)
          /\ gen_features \in FeatureMaps(shape)
    /\ layer_loss = NoFraction
    /\ style_weights = <<>>
    /\ input_image_path = ""
    /\ ckpt_shape = <<>>
    /\ num_iter = -1
    /\ STYLE_LAYERS = <<>>
    /\ content_img = NoImage
    /\ style_img = NoImage
    /\ generated_img = NoImage
    /\ sess = "none"
    /\ out = None
    /\ content_features = NoActivation
    /\ style_features = <<>>
    /\ input = NoGraph
    /\ total_loss = NoLossGraph
    /\ i = -1
    /\ read_img = NoImage
    /\ current_loss = None
    /\ log = <<>>
    /\ files = [p \in {} |-> Partial]
    /\ nMinimize = 0
    /\ nReadback = 0
    /\ nSave = 0
    /\ written = <<>>
    /\ substeps = -1
    /\ error = "none"
    /\ failedAt = None

ComputeLayerStyleLoss ==
    /\ pc = "layer_style_loss"
    /\ layer_loss' = compute_layer_style_loss(ori_features, gen_features)
    /\ pc' = "layer_style_loss_returned"
    /\ UNCHANGED <<params, selfVars, input, runVars, error, failedAt,
                   ori_features, gen_features>>

LossSpec == LossInit /\ [][ComputeLayerStyleLoss]_vars

----------------------------------------------------------------------------
(* Positions *)

InitSteps == {"start", "load_content", "load_style", "session",
              "init_generated", "build_vgg", "build_model", "init_variables",
              "content_features", "assign_style", "style_features"}
RunLoop == {"minimize", "readback", "loss", "print", "save"}
RunSteps == {"run_init", "run_assign"} \cup RunLoop \cup {"close"}
Terminal == {"INIT_FAILED", "ABORTED", "DONE"}

\* every completed write is still in the output folder, as written
SnapshotsIntact ==
    \A j \in 1..Len(written) :
        /\ written[j][1] \in DOMAIN files
        /\ files[written[j][1]] = written[j][2]

\* "output/<i*10>.png", written out: the decimal digits of i followed by 0
ExpectedPath(j) ==
    IF j = 0 THEN "output/0.png" ELSE "output/" \o str(j) \o "0.png"

----------------------------------------------------------------------------
(* C1: a run without error writes exactly num_iter snapshots, one per outer *)
(* iteration: the snapshot of iteration i is written after the optimizer    *)
(* call and the read-back of iteration i and before the optimizer call of   *)
(* iteration i+1, to output_folder/(i*10).png; the paths are pairwise       *)
(* distinct and no snapshot overwrites another.                             *)
C1_OneSnapshotPerIteration ==
    /\ pc = "minimize" => /\ nMinimize = i
                          /\ nReadback = i
                          /\ nSave = i
                          /\ Len(written) = i
    /\ pc = "save" => /\ nMinimize = i + 1
                      /\ nReadback = i + 1
                      /\ nSave = i
                      /\ Len(written) = i
    /\ \A j \in 1..Len(written) : written[j][1] = ExpectedPath(j - 1)
    /\ \A j, k \in 1..Len(written) : j # k => written[j][1] # written[k][1]
    /\ SnapshotsIntact
    /\ pc = "DONE" => /\ Len(written) = num_iter
                      /\ nSave = num_iter
                      /\ Cardinality(DOMAIN files) = num_iter

C1_Witness ==
    /\ pc = "DONE"
    /\ error = "none"
    /\ num_iter = 2
    /\ DOMAIN files = {"output/0.png", "output/10.png"}

(* C2: a step of the run loop that fails at outer iteration i aborts the    *)
(* run: nothing of a later iteration is performed, the failed step is not   *)
(* retried, and the snapshots of iterations 0..i-1 stay as written.         *)
C2_FailureAbortsRun ==
    (error # "none" /\ failedAt \in RunLoop) =>
        /\ pc = "ABORTED"
        /\ nMinimize = i + 1
        /\ nReadback = IF failedAt = "minimize" THEN i ELSE i + 1
        /\ nSave = IF failedAt = "save" THEN i + 1 ELSE i
        /\ Len(log) = IF failedAt = "save" THEN i + 1 ELSE i
        /\ Len(written) = i
        /\ SnapshotsIntact

C2_Witness ==
    /\ pc = "ABORTED"
    /\ failedAt = "save"
    /\ i = 1
    /\ Len(written) = 1
    /\ files["output/0.png"] = written[1][2]

(* C3: an error raised during setup leaves __init__ before any optimizer    *)
(* step and before any snapshot: no object is returned and run never starts.*)
C3_SetupErrorBeforeRun ==
    (error # "none" /\ failedAt \in InitSteps) =>
        /\ pc = "INIT_FAILED"
        /\ num_iter = -1
        /\ nMinimize = 0
        /\ nReadback = 0
        /\ nSave = 0
        /\ DOMAIN files = {}

C3_Witness ==
    /\ pc = "INIT_FAILED"
    /\ failedAt = "style_features"
    /\ Len(style_features) = 2

(* C4: style_weights must have exactly 5 entries: a list of any other      *)
(* length makes construction fail at the lines that build STYLE_LAYERS and  *)
(* is never accepted by using only its first 5 entries.                     *)
C4_ExactlyFiveWeights ==
    (pc # "start" /\ Len(style_weights) # 5) =>
        (pc = "INIT_FAILED" /\ failedAt = "start")

(* C5 as claimed: a checkpoint is loaded as the Generated Image only if its *)
(* height and width equal the configured ones.                              *)
C5_CheckpointShapeChecked ==
    generated_img.src = "checkpoint" => ckpt_shape = <<H, W>>

PastInitGenerated ==
    ({"build_vgg", "build_model", "init_variables", "content_features",
      "assign_style", "style_features", "READY"} \cup RunSteps
        \cup {"DONE", "ABORTED"})

StoppedAfterInitGenerated ==
    /\ pc = "INIT_FAILED"
    /\ failedAt \in PastInitGenerated

(* C5 amended: a checkpoint path, when given, is loaded through load_image  *)
(* with the configured shape, so the Generated Image has the configured     *)
(* height and width whatever the shape of the file; no shape is compared    *)
(* and no ShapeMismatchError is raised.                                     *)
C5_CheckpointResized ==
    /\ error # "ShapeMismatchError"
    /\ (pc \in PastInitGenerated \/ StoppedAfterInitGenerated) =>
          /\ generated_img.shape = <<H, W>>
          /\ generated_img.src =
                 IF input_image_path # "" THEN "checkpoint" ELSE "blend"

C5_Witness ==
    /\ pc = "READY"
    /\ generated_img.src = "checkpoint"
    /\ ckpt_shape # <<H, W>>

(* C6 as claimed: a loss read back as NaN or infinite at iteration i stops  *)
(* the run with an OptimizationError before the snapshot of iteration i.    *)
C6_DivergenceStopsRun ==
    (pc \in RunSteps \cup {"DONE", "ABORTED"} /\ pc # "print"
       /\ current_loss \in {"nan", "inf"}) =>
        /\ pc = "ABORTED"
        /\ error = "OptimizationError"
        /\ nSave = i

(* C6 amended: the loss read back after the optimizer call of iteration i   *)
(* is only printed, under the label Iter<i>0; whatever its value, NaN and   *)
(* infinite included, the run goes on to the snapshot of iteration i, and   *)
(* no OptimizationError is raised.                                          *)
C6_LossOnlyPrinted ==
    /\ error # "OptimizationError"
    /\ failedAt # "print"
    /\ \A j \in 1..Len(log) :
          \E l \in LossValues : log[j] = "Iter" \o str(j - 1) \o "0, Loss: " \o l
    /\ pc \in (RunSteps \cup {"DONE"}) \ {"save"} => nSave = Len(log)
    /\ pc = "save" => nSave + 1 = Len(log)
    /\ pc = "DONE" => Len(log) = num_iter

C6_Witness ==
    /\ pc = "DONE"
    /\ num_iter = 2
    /\ log = <<"Iter00, Loss: nan", "Iter10, Loss: inf">>
    /\ Len(written) = 2

----------------------------------------------------------------------------
\* entry (a, b) of the Gram matrix of a feature map of shape <<1, h, w, c>>:
\* the sum over the positions (y, x) of F[1, y, x, a] * F[1, y, x, b]
GramEntry(F, a, b) ==
    LET w == F.shape[3]
        c == F.shape[4]
        V(y, x, ch) == F.data[((y - 1) * w + (x - 1)) * c + ch]
    IN SumSeq([n \in 1..(F.shape[2] * w) |->
                  V(((n - 1) \div w) + 1, ((n - 1) % w) + 1, a)
                    * V(((n - 1) \div w) + 1, ((n - 1) % w) + 1, b)])

SameGram(F1, F2) ==
    \A a, b \in 1..F1.shape[4] : GramEntry(F1, a, b) = GramEntry(F2, a, b)

(* C7 as claimed: the layer style loss is 0 when the generated features     *)
(* equal the original ones and strictly positive whenever they differ.      *)
C7_ZeroOnlyWhenEqual ==
    pc = "layer_style_loss_returned" =>
        /\ layer_loss.den > 0
        /\ gen_features = ori_features => layer_loss.num = 0
        /\ gen_features # ori_features => layer_loss.num > 0

(* C7 amended: the layer style loss sum((G - O)^2) / (4 c^2 (hw)^2) is 0    *)
(* when the generated features equal the original ones, is never negative,  *)
(* and is strictly positive exactly when the two Gram matrices differ.      *)
C7_ZeroIffSameGram ==
    pc = "layer_style_loss_returned" =>
        LET h == ori_features.shape[2]
            w == ori_features.shape[3]
            c == ori_features.shape[4]
        IN /\ layer_loss.den = 4 * c * c * h * w * h * w
           /\ layer_loss.den > 0
           /\ layer_loss.num >= 0
           /\ gen_features = ori_features => layer_loss.num = 0
           /\ layer_loss.num = 0 <=> SameGram(gen_features, ori_features)

C7_Witness ==
    /\ pc = "layer_style_loss_returned"
    /\ ori_features = [shape |-> <<1, 1, 2, 2>>, data |-> <<1, 0, 0, 1>>]
    /\ gen_features = [shape |-> <<1, 1, 2, 2>>, data |-> <<0, 1, 1, 0>>]
    /\ layer_loss.num = 0

----------------------------------------------------------------------------
(* C8: a run in which no step fails terminates: it makes exactly num_iter   *)
(* outer iterations, each calling the optimizer once with at most 10        *)
(* sub-steps, then closes the session and returns; nothing but the          *)
(* iteration count ends the loop.                                           *)
C8_RunTerminates ==
    /\ <>(pc = "DONE" \/ error # "none")
    /\ [](pc \in Terminal /\ error = "none" => pc = "DONE")
    /\ [](pc = "DONE" => /\ error = "none"
                         /\ sess = "closed"
                         /\ nMinimize = num_iter
                         /\ nReadback = num_iter
                         /\ Len(written) = num_iter)
    /\ [](pc \in {"readback", "loss", "print", "save"} =>
             /\ substeps \in 0..MAXITER
             /\ nMinimize = i + 1)

C8_Witness ==
    /\ pc = "DONE"
    /\ num_iter = 2
    /\ nMinimize = 2
    /\ substeps = MAXITER
    /\ sess = "closed"

(* C9: the input slot holds the content image when the content target is    *)
(* read, the style image when each style target is read, and the initial    *)
(* Generated Image (checkpoint or blend) at the first optimizer call of     *)
(* run, not the style image or the initializer's value; from then on only   *)
(* optimizer calls change it.                                               *)
C9_InputSlot ==
    /\ [](pc \in {"assign_style", "style_features", "READY"} =>
             /\ content_features.img = content_img
             /\ content_img.src = "content")
    /\ [](pc \in {"style_features", "READY"} =>
             /\ style_img.src = "style"
             /\ input = style_img
             /\ \A k \in 1..Len(style_features) : style_features[k].img = style_img)
    /\ [](pc = "minimize" /\ i = 0 =>
             /\ input = generated_img
             /\ input.src \in {"checkpoint", "blend"})
    /\ [][(pc \in RunLoop /\ input' # input) => (pc = "minimize")]_vars

C9_Witness ==
    /\ pc = "minimize"
    /\ i = 0
    /\ nMinimize = 0
    /\ input = generated_img
    /\ input.src = "blend"
    /\ Len(style_features) = 5

(* C10: after construction the style-target list has exactly 5 entries,     *)
(* entry k being the style image's activation at the k-th style layer, the  *)
(* layer whose weight multiplies it in the total style loss; these, the     *)
(* content target and the layer configuration are the same at every         *)
(* position of run.                                                         *)
C10_TargetsFixed ==
    pc \in {"READY", "DONE", "ABORTED"} \cup RunSteps =>
        /\ Len(style_features) = 5
        /\ \A k \in 1..Len(style_features) :
              style_features[k] = Activation(style_img, StyleLayerNames[k])
        /\ style_img = [src |-> "style", shape |-> <<H, W>>]
        /\ content_features = Activation(content_img, OutputLayer)
        /\ content_img = [src |-> "content", shape |-> <<H, W>>]
        /\ Len(STYLE_LAYERS) = 5
        /\ \A k \in 1..Len(STYLE_LAYERS) :
              STYLE_LAYERS[k] = <<StyleLayerNames[k], style_weights[k]>>
        /\ pc # "READY" =>
              /\ Len(total_loss.style) = 5
              /\ \A k \in 1..Len(total_loss.style) :
                    /\ total_loss.style[k].ori = style_features[k]
                    /\ total_loss.style[k].ori.layer = total_loss.style[k].gen
                    /\ total_loss.style[k].coeff = style_weights[k]
              /\ total_loss.content.target = content_features

C10_Witness ==
    /\ pc = "DONE"
    /\ num_iter = 2
    /\ Len(written) = 2
    /\ Len(style_features) = 5
    /\ style_features[3].layer = "conv3_1"
    /\ input.src = "optimized"

====
